---------------------------- MODULE Spec2Model ----------------------------
(***************************************************************************)
(* A model of the aws-app-mesh-weighted-routing CDK application.           *)
(*                                                                         *)
(* The topology compiler (lib/app-mesh-service.ts,                         *)
(* lib/envoy-fargate-service.ts, lib/aws-app-mesh-weighted-routing-stack)  *)
(* is modelled as a state machine whose state is the construct graph under *)
(* construction and whose actions are the public operations of the two     *)
(* construct classes: new AppMeshService(...), addBackends(...) and        *)
(* createExternalLoadBalancer().  The serviceA gateway                     *)
(* (containers/serviceA/app.js) is modelled as a second state machine over *)
(* the requests in flight.                                                 *)
(*                                                                         *)
(* The strings that the code transforms (`${name}.${zoneName}`) are        *)
(* sequences of one-character strings, so that toLowerCase() is modelled   *)
(* by what it does.  A template string `Prefix_${name}` is the pair        *)
(* <<"Prefix_", name>>.                                                    *)
(*                                                                         *)
(* Every construct is created with `new X(scope, id, ...)`; the construct  *)
(* tree refuses a second child with the same id in one scope by throwing   *)
(* from the constructor.  Nothing in the application catches, so the       *)
(* process ends without emitting a graph (outcome.status is "error").      *)
(***************************************************************************)
EXTENDS Integers, Sequences, FiniteSets, TLC

VARIABLES
    outcome,          \* status "ok" while the compile runs, "error" once a constructor threw
    services,         \* the AppMeshService constructs of the stack, in creation order
    namespace,        \* Cloud Map namespace: the service names registered, in order
    virtualServices,  \* the mesh's VirtualService resources, in creation order
    hostedZone,       \* the private hosted zone: zoneName and its A records
    grants,           \* the connections.allowTo(...) permissions issued, in order
    loadBalancers,    \* the ApplicationLoadBalancer constructs, in creation order
    outputs,          \* the CfnOutput constructs, in creation order
    calls,            \* the addBackends calls made so far (caller id, callee id)
    requests          \* gateway: the state of every GET /serviceb request

compileVars == <<outcome, services, namespace, virtualServices, hostedZone,
                 grants, loadBalancers, outputs, calls>>
vars == <<outcome, services, namespace, virtualServices, hostedZone,
          grants, loadBalancers, outputs, calls, requests>>

---------------------------------------------------------------------------
(* Bounds of the exploration *)

MaxRoutes == 2
MaxCalls == 1
MaxExposed == 1
MaxRequests == 3

---------------------------------------------------------------------------
(* Strings *)

UpperCaseLetters ==
    <<"A","B","C","D","E","F","G","H","I","J","K","L","M",
      "N","O","P","Q","R","S","T","U","V","W","X","Y","Z">>
LowerCaseLetters ==
    <<"a","b","c","d","e","f","g","h","i","j","k","l","m",
      "n","o","p","q","r","s","t","u","v","w","x","y","z">>

ToLowerCaseChar(c) ==
    IF \E i \in DOMAIN UpperCaseLetters : UpperCaseLetters[i] = c
    THEN LowerCaseLetters[CHOOSE i \in DOMAIN UpperCaseLetters : UpperCaseLetters[i] = c]
    ELSE c

\* A toLowerCase() that was left out
KeepCase(s) == s

\* String.prototype.toLowerCase()
ToLowerCase(s) == [i \in 1..Len(s) |-> ToLowerCaseChar(s[i])]

\* The characters of the strings the application transforms
Chars(str) ==
    CASE str = "serviceA" -> <<"s","e","r","v","i","c","e","A">>
      [] str = "serviceB" -> <<"s","e","r","v","i","c","e","B">>
      [] str = "appmesh.local" -> <<"a","p","p","m","e","s","h",".","l","o","c","a","l">>

\* `${prefix}${name}`
Template(prefix, name) == <<prefix, name>>

\* `${name}.${zoneName}`
DottedName(name, zoneName) == Chars(name) \o <<".">> \o Chars(zoneName)

Range(seq) == {seq[i] : i \in DOMAIN seq}

RECURSIVE SumSeq(_)
SumSeq(seq) == IF seq = <<>> THEN 0 ELSE Head(seq) + SumSeq(Tail(seq))

RECURSIVE Flatten(_)
Flatten(seqs) == IF seqs = <<>> THEN <<>> ELSE Head(seqs) \o Flatten(Tail(seqs))

\* The construct tree's rule: two children of one scope never share an id.
HasDuplicate(ids) == \E i, j \in DOMAIN ids : i < j /\ ids[i] = ids[j]

\* The id whose second use the construct tree refuses first.
FirstDuplicate(ids) ==
    ids[CHOOSE j \in DOMAIN ids :
            /\ \E i \in 1..(j - 1) : ids[i] = ids[j]
            /\ \A m \in 1..(j - 1) : ~\E i \in 1..(m - 1) : ids[i] = ids[m]]

---------------------------------------------------------------------------
(* The literals of the application *)

str_serviceb_appmesh_local ==
    <<"s","e","r","v","i","c","e","b",".","a","p","p","m","e","s","h",".","l","o","c","a","l">>

\* new route53.PrivateHostedZone(this, 'PrivateHostedZone', { zoneName: 'appmesh.local' })
ZoneName == "appmesh.local"

\* route53.RecordTarget.fromIpAddresses('10.10.10.10')
PlaceholderAddress == "10.10.10.10"

\* props of `new AppMeshService(this, 'AppMeshServiceA', {...})`
ServiceAProps ==
    [name |-> "serviceA", port |-> 3000,
     routes |-> <<[name |-> "serviceA", weight |-> 1]>>]

\* props of `new AppMeshService(this, 'AppMeshServiceB', {...})`
ServiceBProps ==
    [name |-> "serviceB", port |-> 3000,
     routes |-> <<[name |-> "serviceB_v1", weight |-> 4],
                  [name |-> "serviceB_v2", weight |-> 1]>>]

---------------------------------------------------------------------------
(* EnvoyFargateService *)

\* createFargateService: the ECS service and its Cloud Map registration
CreateFargateService(meta) ==
    [id |-> Template("FargateService_", meta.name),
     desiredCount |-> 1,
     cloudMapOptions |-> [name |-> meta.name, dnsRecordType |-> "A", dnsTtl |-> 0]]

\* createVirtualNode: the mesh node, its listener and its health check
CreateVirtualNode(meta) ==
    [id |-> Template("VirtualNode_", meta.name),
     virtualNodeName |-> meta.name,
     listener |-> [protocol |-> "http", port |-> meta.port,
                   healthCheck |-> [healthyThreshold |-> 3, interval |-> 5,
                                    path |-> "/health", timeout |-> 2,
                                    unhealthyThreshold |-> 2]],
     backends |-> <<>>]

\* new EnvoyFargateService(scope, id, { meta, environment })
EnvoyFargateService(id, meta) ==
    [id |-> id,
     meta |-> meta,
     fargateService |-> CreateFargateService(meta),
     virtualNode |-> CreateVirtualNode(meta),
     children |-> <<Template("TaskRole_", meta.name),
                    Template("TaskExecutionRole_", meta.name),
                    Template("TaskDefinition_", meta.name),
                    Template("FargateService_", meta.name),
                    Template("VirtualNode_", meta.name)>>]

---------------------------------------------------------------------------
(* AppMeshService *)

\* A map over the routes that skips the entries of weight 0
MapRoutesDroppingZeroWeight(props) ==
    LET kept == SelectSeq(props.routes, LAMBDA r : r.weight > 0)
    IN  [i \in 1..Len(kept) |->
            EnvoyFargateService(Template("EnvoyFargateService_", kept[i].name),
                                [name |-> kept[i].name, port |-> props.port])]

\* this.envoyFargateServices = props.routes.map(r => new EnvoyFargateService(...))
MapRoutes(props) ==
    [i \in 1..Len(props.routes) |->
        EnvoyFargateService(Template("EnvoyFargateService_", props.routes[i].name),
                            [name |-> props.routes[i].name, port |-> props.port])]

\* The reference held to a replica's VirtualNode / FargateService object:
\* the construct path (owning AppMeshService id, EnvoyFargateService id).
UnitRef(serviceId, unit) == [service |-> serviceId, unit |-> unit.id]

\* Weighted targets that pair the units with the weights in opposite orders
WeightedTargetsReversed(serviceId, units, routes) ==
    [idx \in 1..Len(units) |->
        [virtualNode |-> UnitRef(serviceId, units[Len(units) + 1 - idx]),
         weight |-> routes[idx].weight]]

\* Weighted targets that carry the percentages of the stack's comment
\* (80% and 40%) in place of the weights 4 and 1
WeightedTargetsAsPercent(serviceId, units, routes) ==
    [idx \in 1..Len(units) |->
        [virtualNode |-> UnitRef(serviceId, units[idx]),
         weight |-> IF routes[idx].weight = 4 THEN 80
                    ELSE IF routes[idx].weight = 1 THEN 40
                    ELSE routes[idx].weight]]

\* const weightedTargets = this.envoyFargateServices.map((s, idx) => ...)
WeightedTargets(serviceId, units, routes) ==
    [idx \in 1..Len(units) |->
        [virtualNode |-> UnitRef(serviceId, units[idx]),
         weight |-> routes[idx].weight]]

\* new appmesh.VirtualRouter(...) and virtualRouter.addRoute('VirtualRoute', ...)
VirtualRouter(serviceId, props, units) ==
    [id |-> Template("VirtualRouter_", props.name),
     listener |-> [protocol |-> "http", port |-> props.port],
     routes |-> <<[id |-> "VirtualRoute",
                   routeName |-> Template("Route_", props.name),
                   protocol |-> "http",
                   weightedTargets |-> WeightedTargets(serviceId, units, props.routes)]>>]

\* A VirtualService whose name is not lowercased
VirtualServiceKeepingCase(serviceId, props, zoneName) ==
    [scope |-> serviceId,
     id |-> Template("VirtualService_", props.name),
     virtualServiceName |-> KeepCase(DottedName(props.name, zoneName)),
     virtualServiceProvider |->
        [virtualRouter |-> [service |-> serviceId,
                            id |-> Template("VirtualRouter_", props.name)]]]

\* new appmesh.VirtualService(...)
VirtualService(serviceId, props, zoneName) ==
    [scope |-> serviceId,
     id |-> Template("VirtualService_", props.name),
     virtualServiceName |-> ToLowerCase(DottedName(props.name, zoneName)),
     virtualServiceProvider |->
        [virtualRouter |-> [service |-> serviceId,
                            id |-> Template("VirtualRouter_", props.name)]]]

\* new route53.ARecord(...)
ARecord(serviceId, props, zoneName) ==
    [scope |-> serviceId,
     id |-> Template("ARecord_", props.name),
     recordName |-> ToLowerCase(DottedName(props.name, zoneName)),
     target |-> PlaceholderAddress]

\* The ids the constructor gives to the children of its own scope, in order.
ChildIds(props) ==
    [i \in 1..Len(props.routes) |-> Template("EnvoyFargateService_", props.routes[i].name)]
    \o <<Template("VirtualRouter_", props.name),
         Template("VirtualService_", props.name),
         Template("ARecord_", props.name)>>

\* new AppMeshService(scope, id, props): the object the constructor builds
AppMeshService(id, props, zoneName) ==
    LET units == MapRoutes(props)
    IN  [id |-> id,
         props |-> props,
         envoyFargateServices |-> units,
         virtualRouter |-> VirtualRouter(id, props, units),
         virtualService |-> VirtualService(id, props, zoneName)]

\* "There is already a Construct with name <id> in <scope>": the uncaught
\* exception ends the process, and no graph is left to emit.
Abort(scope, id) ==
    /\ outcome' = [status |-> "error", scope |-> scope, name |-> id]
    /\ services' = <<>>
    /\ namespace' = <<>>
    /\ virtualServices' = <<>>
    /\ hostedZone' = [hostedZone EXCEPT !.records = <<>>]
    /\ grants' = <<>>
    /\ loadBalancers' = <<>>
    /\ outputs' = <<>>
    /\ calls' = <<>>
    /\ UNCHANGED requests

\* super(scope, id): the id is already taken in the stack's scope
IdTaken(id) == \E k \in DOMAIN services : services[k].id = id

\* Whether the constructor throws: the id is taken in the stack's scope, or
\* two children of the new construct would share an id.
ConstructorThrows(id, props) == IdTaken(id) \/ HasDuplicate(ChildIds(props))

\* new AppMeshService(this, id, props), called by the stack
NewAppMeshService(id, props) ==
    /\ outcome.status = "ok"
    /\ IF ConstructorThrows(id, props)
       THEN IF IdTaken(id)
            THEN Abort(<<"AwsAppmeshWeightedRoutingStack">>, <<id>>)
            ELSE Abort(<<id>>, FirstDuplicate(ChildIds(props)))
       ELSE LET s == AppMeshService(id, props, hostedZone.zoneName)
            IN  /\ services' = Append(services, s)
                /\ namespace' = namespace \o
                      [i \in 1..Len(s.envoyFargateServices) |->
                          [name |-> s.envoyFargateServices[i].fargateService.cloudMapOptions.name,
                           owner |-> UnitRef(id, s.envoyFargateServices[i])]]
                /\ virtualServices' = Append(virtualServices, s.virtualService)
                /\ hostedZone' = [hostedZone EXCEPT
                        !.records = Append(@, ARecord(id, props, hostedZone.zoneName))]
                /\ UNCHANGED <<outcome, grants, loadBalancers, outputs, calls, requests>>

---------------------------------------------------------------------------
(* AppMeshService.addBackends *)

\* appmesh.Backend.virtualService(service.virtualService)
Backend(service) ==
    [virtualService |-> [scope |-> service.virtualService.scope,
                         virtualServiceName |-> service.virtualService.virtualServiceName]]

\* from.virtualNode.addBackend(...)
AddBackend(unit, service) ==
    [unit EXCEPT !.virtualNode.backends = Append(@, Backend(service))]

\* from.fargateService.connections.allowTo(to.fargateService, ec2.Port.tcp(to.meta.port), ...)
AllowTo(fromService, from, toService, to) ==
    [from |-> UnitRef(fromService.id, from),
     to |-> UnitRef(toService.id, to),
     port |-> [protocol |-> "tcp", port |-> to.meta.port],
     description |-> <<from.meta.name, to.meta.name, to.meta.port>>]

\* allowTo calls that reach only the first unit of the callee
AllowToFirstOnly(this, service) ==
    Flatten([i \in 1..Len(this.envoyFargateServices) |->
                [j \in 1..(IF Len(service.envoyFargateServices) > 0 THEN 1 ELSE 0) |->
                    AllowTo(this, this.envoyFargateServices[i],
                            service, service.envoyFargateServices[j])]])

\* allowTo calls that also open the direction from the callee to the caller
AllowToBothWays(this, service) ==
    Flatten([i \in 1..Len(this.envoyFargateServices) |->
                Flatten([j \in 1..Len(service.envoyFargateServices) |->
                    <<AllowTo(this, this.envoyFargateServices[i],
                              service, service.envoyFargateServices[j]),
                      AllowTo(service, service.envoyFargateServices[j],
                              this, this.envoyFargateServices[i])>>])])

\* The allowTo calls of one addBackends call, in the order the two forEach
\* loops make them.
AllowToCalls(this, service) ==
    Flatten([i \in 1..Len(this.envoyFargateServices) |->
                [j \in 1..Len(service.envoyFargateServices) |->
                    AllowTo(this, this.envoyFargateServices[i],
                            service, service.envoyFargateServices[j])]])

\* An addBackends that also rebalances the callee's route to equal weights
AddBackendsReweighting(a, b) ==
    /\ outcome.status = "ok"
    /\ services' =
          [k \in DOMAIN services |->
              LET s == IF k = a
                       THEN [services[k] EXCEPT !.envoyFargateServices =
                                [i \in 1..Len(@) |-> AddBackend(@[i], services[b])]]
                       ELSE services[k]
              IN  IF k = b
                  THEN [s EXCEPT !.virtualRouter.routes[1].weightedTargets =
                            [i \in 1..Len(@) |-> [@[i] EXCEPT !.weight = 1]]]
                  ELSE s]
    /\ grants' = grants \o AllowToCalls(services[a], services[b])
    /\ calls' = Append(calls, [from |-> services[a].id, to |-> services[b].id])
    /\ UNCHANGED <<outcome, namespace, virtualServices, hostedZone,
                   loadBalancers, outputs, requests>>

\* this.addBackends(service), for this = services[a] and service = services[b]
AddBackends(a, b) ==
    /\ outcome.status = "ok"
    /\ services' = [services EXCEPT ![a].envoyFargateServices =
                        [i \in 1..Len(@) |-> AddBackend(@[i], services[b])]]
    /\ grants' = grants \o AllowToCalls(services[a], services[b])
    /\ calls' = Append(calls, [from |-> services[a].id, to |-> services[b].id])
    /\ UNCHANGED <<outcome, namespace, virtualServices, hostedZone,
                   loadBalancers, outputs, requests>>

---------------------------------------------------------------------------
(* EnvoyFargateService.createExternalLoadBalancer *)

\* `ApplicationLoadBalancer_${this.meta.name}`
LoadBalancerId(unit) == Template("ApplicationLoadBalancer_", unit.meta.name)

\* new elbv2.ApplicationLoadBalancer(...), addListener(...), addTargets(...)
ApplicationLoadBalancer(serviceId, unit) ==
    [scope |-> UnitRef(serviceId, unit),
     id |-> LoadBalancerId(unit),
     internetFacing |-> TRUE,
     listeners |-> <<[id |-> Template("Listener_", unit.meta.name),
                      port |-> 80, protocol |-> "HTTP",
                      targetGroups |->
                         <<[id |-> Template("TargetGroup_", unit.meta.name),
                            port |-> unit.meta.port, protocol |-> "HTTP",
                            targets |-> <<UnitRef(serviceId, unit)>>,
                            healthCheck |-> [path |-> "/health"]]>>]>>]

\* new cdk.CfnOutput(this, `ApiEndpoint_${this.meta.name}`, ...)
CfnOutput(serviceId, unit) ==
    [scope |-> UnitRef(serviceId, unit),
     id |-> Template("ApiEndpoint_", unit.meta.name),
     value |-> [loadBalancerDnsName |-> [scope |-> UnitRef(serviceId, unit),
                                         id |-> LoadBalancerId(unit)]]]

\* Ids that never collide (as if made unique per call)
NeverTaken(unit) == FALSE

\* Whether createExternalLoadBalancer throws on this unit: one of the ids it
\* gives to the children it adds to the unit's scope is already taken there.
FrontDoorIdsTaken(unit) ==
    \/ LoadBalancerId(unit) \in Range(unit.children)
    \/ Template("ApiEndpoint_", unit.meta.name) \in Range(unit.children)

\* services[a].envoyFargateServices[i].createExternalLoadBalancer()
CreateExternalLoadBalancer(a, i) ==
    LET unit == services[a].envoyFargateServices[i]
        lb == ApplicationLoadBalancer(services[a].id, unit)
        out == CfnOutput(services[a].id, unit)
    IN  /\ outcome.status = "ok"
        /\ IF FrontDoorIdsTaken(unit)
           THEN Abort(unit.id, IF lb.id \in Range(unit.children) THEN lb.id ELSE out.id)
           ELSE /\ services' = [services EXCEPT ![a].envoyFargateServices[i].children =
                                    @ \o <<lb.id, out.id>>]
                /\ loadBalancers' = Append(loadBalancers, lb)
                /\ outputs' = Append(outputs, out)
                /\ UNCHANGED <<outcome, namespace, virtualServices, hostedZone,
                               grants, calls, requests>>

---------------------------------------------------------------------------
(* The stack: AwsAppmeshWeightedRoutingStack *)

\* The state after the stack has created the shared environment
\* (VPC, mesh, Cloud Map namespace, cluster, private hosted zone).
CompileInit ==
    /\ outcome = [status |-> "ok"]
    /\ services = <<>>
    /\ namespace = <<>>
    /\ virtualServices = <<>>
    /\ hostedZone = [zoneName |-> ZoneName, records |-> <<>>]
    /\ grants = <<>>
    /\ loadBalancers = <<>>
    /\ outputs = <<>>
    /\ calls = <<>>

\* The inputs of the exploration of the whole stack: three construct ids and
\* the props the stack passes.
GroupIds == {"AppMeshServiceA", "AppMeshServiceB", "AppMeshServiceC"}
StackProps == {ServiceAProps, ServiceBProps}

\* The inputs of the exploration of the constructor
ConstructIds == {"AppMeshServiceA", "AppMeshServiceB"}
GroupNames == {"serviceA", "serviceB"}
Ports == {3000, 70000}
RouteEntries ==
    {[name |-> "serviceA", weight |-> 1],
     [name |-> "serviceB_v1", weight |-> 4],
     [name |-> "serviceB_v2", weight |-> 1],
     [name |-> "serviceB_v2", weight |-> 0]}
RouteLists == UNION {[1..n -> RouteEntries] : n \in 0..MaxRoutes}
GroupProps == [name : GroupNames, port : Ports, routes : RouteLists]

\* new AppMeshService(this, id, props) for any id and props of the given sets.
\* With an id that is taken the constructor throws at super(scope, id), before
\* it reads its props, so one props value stands for all of them.
ConstructOver(ids, propsSet) ==
    \E id \in ids :
        IF IdTaken(id)
        THEN NewAppMeshService(id, ServiceAProps)
        ELSE \E props \in propsSet : NewAppMeshService(id, props)

Construct == ConstructOver(GroupIds, StackProps)

Wire ==
    /\ Len(calls) < MaxCalls
    /\ \E a, b \in DOMAIN services : AddBackends(a, b)

\* At most MaxExposed units are given a front door; a unit that has one can
\* always be the target of another call.
Expose ==
    \E a \in DOMAIN services :
       \E i \in DOMAIN services[a].envoyFargateServices :
          /\ \/ Cardinality({loadBalancers[n].scope : n \in DOMAIN loadBalancers}) < MaxExposed
             \/ \E n \in DOMAIN loadBalancers :
                   loadBalancers[n].scope =
                      UnitRef(services[a].id, services[a].envoyFargateServices[i])
          /\ CreateExternalLoadBalancer(a, i)

Init == CompileInit /\ requests = <<>>

Next == Construct \/ Wire \/ Expose

Spec == Init /\ [][Next]_vars

ConstructAny == ConstructOver(ConstructIds, GroupProps)

SpecConstruct == Init /\ [][ConstructAny]_vars

---------------------------------------------------------------------------
(* The serviceA gateway: app.get('/serviceb', ...) *)

\* What the call axios.get('http://serviceb.appmesh.local:3000/version') can
\* settle with: a 2xx response whose data is the body of serviceB's /version,
\* or a rejection.
DownstreamResponses == {[data |-> [version |-> "v1"]], [data |-> [version |-> "v2"]]}
DownstreamFailures ==
    {[message |-> "connect ECONNREFUSED", code |-> "ECONNREFUSED"],
     [message |-> "getaddrinfo ENOTFOUND", code |-> "ENOTFOUND"],
     [message |-> "Request failed with status code 503", code |-> "ERR_BAD_RESPONSE"]}

\* JSON.stringify(e): the text of the error's JSON form
JSONStringify(e) == [text |-> <<"message", e.message, "code", e.code>>]

\* res.json(body): one response, status 200
ResJson(body) == [status |-> 200, body |-> body]

\* try { ...; res.json({ serviceB: resp.data }) }
OnFulfilled(resp) == <<ResJson([serviceB |-> resp.data])>>

\* A handler without the catch: the rejection escapes and nothing is sent
Uncaught(e) == <<>>

\* catch (e) { console.error(e); res.json({ error: JSON.stringify(e) }) }
OnRejected(e) == <<ResJson([error |-> JSONStringify(e)])>>

\* A request arrives; the handler runs up to `await axios.get(...)`.
Receive ==
    /\ Len(requests) < MaxRequests
    /\ requests' = Append(requests, [pc |-> "await", settled |-> [kind |-> "pending"],
                                     responses |-> <<>>])
    /\ UNCHANGED compileVars

\* The downstream call of request r resolves and the handler finishes.
Fulfil(r) ==
    /\ r \in DOMAIN requests
    /\ requests[r].pc = "await"
    /\ \E resp \in DownstreamResponses :
          requests' = [requests EXCEPT ![r] =
                          [pc |-> "done", settled |-> [kind |-> "fulfilled", value |-> resp],
                           responses |-> @.responses \o OnFulfilled(resp)]]
    /\ UNCHANGED compileVars

\* The downstream call of request r rejects and the handler finishes.
Reject(r) ==
    /\ r \in DOMAIN requests
    /\ requests[r].pc = "await"
    /\ \E e \in DownstreamFailures :
          requests' = [requests EXCEPT ![r] =
                          [pc |-> "done", settled |-> [kind |-> "rejected", value |-> e],
                           responses |-> @.responses \o OnRejected(e)]]
    /\ UNCHANGED compileVars

Settle(r) == Fulfil(r) \/ Reject(r)

GatewayNext ==
    \/ Receive
    \/ \E r \in DOMAIN requests : Fulfil(r)
    \/ \E r \in DOMAIN requests : Reject(r)

\* Every downstream call settles: the HTTP client resolves or rejects each
\* call, and the event loop then runs the handler's continuation.
SpecGateway ==
    Init /\ [][GatewayNext]_vars /\ \A r \in 1..MaxRequests : WF_vars(Settle(r))

---------------------------------------------------------------------------
(* Properties *)

Units(s) == s.envoyFargateServices
Targets(s) == s.virtualRouter.routes[1].weightedTargets
Weights(s) == [i \in DOMAIN Targets(s) |-> Targets(s)[i].weight]
TotalWeight(s) == SumSeq(Weights(s))
Count(seq, P(_)) == Cardinality({n \in DOMAIN seq : P(seq[n])})

\* Target i of s receives pct percent of the traffic: weight / sum of weights.
HasShare(s, i, pct) ==
    /\ TotalWeight(s) > 0
    /\ 100 * Targets(s)[i].weight = pct * TotalWeight(s)

\* C1: the single route of a group created with routes r_1..r_n (weights not
\* all zero) has exactly n weighted targets, and target i is the routing node
\* of the unit named r_i.name with weight r_i.weight: input order, nothing
\* dropped, duplicated or reordered.
C1_WeightedTargetsInInputOrder ==
    \A k \in DOMAIN services :
        LET s == services[k]
            r == s.props.routes
        IN  SumSeq([i \in DOMAIN r |-> r[i].weight]) > 0 =>
              /\ Len(s.virtualRouter.routes) = 1
              /\ Len(Targets(s)) = Len(r)
              /\ \A i \in DOMAIN r :
                    /\ Targets(s)[i].weight = r[i].weight
                    /\ Targets(s)[i].virtualNode.service = s.id
                    /\ \E j \in DOMAIN Units(s) :
                          /\ Units(s)[j].id = Targets(s)[i].virtualNode.unit
                          /\ Units(s)[j].meta.name = r[i].name
                          /\ Units(s)[j].virtualNode.virtualNodeName = r[i].name
              /\ \A i, j \in DOMAIN Targets(s) :
                    i # j => Targets(s)[i].virtualNode # Targets(s)[j].virtualNode

C1_Witness ==
    \E k \in DOMAIN services :
        /\ services[k].props.routes = ServiceBProps.routes
        /\ Weights(services[k]) = <<4, 1>>

\* The grants a step has added, and the backend declarations it has added
NewGrants == SubSeq(grants', Len(grants) + 1, Len(grants'))
BackendCount(svcs) ==
    SumSeq([k \in DOMAIN svcs |->
              SumSeq([i \in DOMAIN Units(svcs[k]) |->
                        Len(Units(svcs[k])[i].virtualNode.backends)])])

\* C2: one call addBackends(A, B) emits exactly |A|*|B| grants, one for every
\* pair (from in A, to in B) on to's port, and exactly |A| backend
\* declarations, one on each unit of A, each naming B's published identity;
\* for serviceA calling serviceB that is 2 grants and 1 declaration.
C2_AddBackendsEmitsNTimesM ==
    [][\A a, b \in DOMAIN services :
          (Len(calls') = Len(calls) + 1 /\ AddBackends(a, b)) =>
            LET A == services[a]
                B == services[b]
            IN  /\ SubSeq(grants', 1, Len(grants)) = grants
                /\ Len(NewGrants) = Len(Units(A)) * Len(Units(B))
                /\ \A i \in DOMAIN Units(A), j \in DOMAIN Units(B) :
                      Cardinality({n \in DOMAIN NewGrants :
                            /\ NewGrants[n].from = UnitRef(A.id, Units(A)[i])
                            /\ NewGrants[n].to = UnitRef(B.id, Units(B)[j])
                            /\ NewGrants[n].port.port = Units(B)[j].meta.port}) = 1
                /\ BackendCount(services') = BackendCount(services) + Len(Units(A))
                /\ \A i \in DOMAIN Units(A) :
                      LET before == Units(A)[i].virtualNode.backends
                          after == Units(services'[a])[i].virtualNode.backends
                      IN  /\ Len(after) = Len(before) + 1
                          /\ SubSeq(after, 1, Len(before)) = before
                          /\ after[Len(after)].virtualService.scope = B.id
                          /\ after[Len(after)].virtualService.virtualServiceName
                                = B.virtualService.virtualServiceName
                /\ (A.props = ServiceAProps /\ B.props = ServiceBProps) =>
                      (Len(NewGrants) = 2
                       /\ BackendCount(services') = BackendCount(services) + 1)
      ]_vars

C2_Witness ==
    /\ Len(services) = 2
    /\ services[1].props = ServiceAProps
    /\ services[2].props = ServiceBProps
    /\ calls = <<[from |-> services[1].id, to |-> services[2].id]>>
    /\ Len(grants) = 2
    /\ BackendCount(services) = 1

\* out is the lowercase form of in
IsLowerCaseOf(out, in) ==
    /\ Len(out) = Len(in)
    /\ \A i \in DOMAIN in :
          /\ out[i] \notin Range(UpperCaseLetters)
          /\ \/ out[i] = in[i]
             \/ \E n \in DOMAIN UpperCaseLetters :
                   in[i] = UpperCaseLetters[n] /\ out[i] = LowerCaseLetters[n]

\* C3: every group publishes exactly one service identity, named the lowercase
\* form of <group-name>.<zone> and provided by the group's own router, and
\* registers exactly one A record of that name at the placeholder address;
\* for "serviceB" in "appmesh.local" the name is "serviceb.appmesh.local".
C3_OnePublishedIdentity ==
    \A k \in DOMAIN services :
        LET s == services[k]
            full == Chars(s.props.name) \o <<".">> \o Chars(hostedZone.zoneName)
            own(x) == x.scope = s.id
        IN  /\ Count(virtualServices, own) = 1
            /\ Count(hostedZone.records, own) = 1
            /\ \A n \in DOMAIN virtualServices :
                  own(virtualServices[n]) =>
                    /\ virtualServices[n] = s.virtualService
                    /\ IsLowerCaseOf(virtualServices[n].virtualServiceName, full)
                    /\ virtualServices[n].virtualServiceProvider.virtualRouter
                          = [service |-> s.id, id |-> s.virtualRouter.id]
                    /\ s.props.name = "serviceB" =>
                          virtualServices[n].virtualServiceName = str_serviceb_appmesh_local
            /\ \A n \in DOMAIN hostedZone.records :
                  own(hostedZone.records[n]) =>
                    /\ hostedZone.records[n].recordName = s.virtualService.virtualServiceName
                    /\ hostedZone.records[n].target = "10.10.10.10"

C3_Witness ==
    \E k \in DOMAIN services :
        /\ services[k].props.name = "serviceB"
        /\ Len(Units(services[k])) = 2
        /\ services[k].virtualService.virtualServiceName = str_serviceb_appmesh_local
        /\ \E n \in DOMAIN hostedZone.records :
              hostedZone.records[n].recordName = str_serviceb_appmesh_local

AllUnitNames == Flatten([k \in DOMAIN services |->
                    [i \in DOMAIN Units(services[k]) |-> Units(services[k])[i].meta.name]])

\* C4: a compile whose input has a duplicate unit name anywhere in the
\* topology, an empty route list or an invalid port aborts without a graph,
\* so every graph under construction has pairwise distinct unit names, at
\* least one unit in every group and valid ports.
C4_NoContractViolationEmitted ==
    outcome.status = "ok" =>
        /\ ~HasDuplicate(AllUnitNames)
        /\ \A k \in DOMAIN services :
              /\ Len(Units(services[k])) >= 1
              /\ services[k].props.port \in 1..65535

HasFrontDoor(serviceId, unit) ==
    \E n \in DOMAIN loadBalancers : loadBalancers[n].scope = UnitRef(serviceId, unit)

\* C5 as stated: every call of createExternalLoadBalancer succeeds and adds one
\* front door, also a second call on the same unit.
C5_EveryCallAddsAFrontDoor ==
    [][\A a \in DOMAIN services : \A i \in DOMAIN Units(services[a]) :
          CreateExternalLoadBalancer(a, i) =>
            /\ outcome'.status = "ok"
            /\ Len(loadBalancers') = Len(loadBalancers) + 1
      ]_vars

\* C5: a call of createExternalLoadBalancer on a unit without a front door
\* creates exactly one front door with one listener and one endpoint output;
\* a call on a unit that has a front door throws and ends the compile, so no
\* graph holds two front doors of one unit.
C5_OneFrontDoorPerUnit ==
    /\ [](\A k \in DOMAIN services : \A i \in DOMAIN Units(services[k]) :
            LET of(x) == x.scope = UnitRef(services[k].id, Units(services[k])[i])
            IN  Count(loadBalancers, of) <= 1 /\ Count(outputs, of) <= 1)
    /\ [][\A a \in DOMAIN services : \A i \in DOMAIN Units(services[a]) :
            (loadBalancers' # loadBalancers /\ CreateExternalLoadBalancer(a, i)) =>
              LET unit == Units(services[a])[i]
                  ref == UnitRef(services[a].id, unit)
              IN  IF HasFrontDoor(services[a].id, unit)
                  THEN outcome'.status = "error" /\ loadBalancers' = <<>> /\ outputs' = <<>>
                  ELSE /\ outcome'.status = "ok"
                       /\ Len(loadBalancers') = Len(loadBalancers) + 1
                       /\ SubSeq(loadBalancers', 1, Len(loadBalancers)) = loadBalancers
                       /\ loadBalancers'[Len(loadBalancers')].scope = ref
                       /\ Len(loadBalancers'[Len(loadBalancers')].listeners) = 1
                       /\ Len(outputs') = Len(outputs) + 1
                       /\ SubSeq(outputs', 1, Len(outputs)) = outputs
                       /\ outputs'[Len(outputs')].scope = ref
                       /\ outputs'[Len(outputs')].value.loadBalancerDnsName.id
                             = loadBalancers'[Len(loadBalancers')].id
       ]_vars

C5_Witness ==
    \E k \in DOMAIN services : \E i \in DOMAIN Units(services[k]) :
        /\ HasFrontDoor(services[k].id, Units(services[k])[i])
        /\ Len(loadBalancers) = 1
        /\ Len(loadBalancers[1].listeners) = 1
        /\ Len(outputs) = 1

C8_ZeroWeightUnitStaysRegistered ==
    \A k \in DOMAIN services :
        LET s == services[k]
            r == s.props.routes
        IN  \A i \in DOMAIN r :
              r[i].weight = 0 =>
                /\ outcome.status = "ok"
                /\ i \in DOMAIN Targets(s)
                /\ Targets(s)[i].weight = 0
                /\ \E j \in DOMAIN Units(s) :
                      LET u == Units(s)[j]
                      IN  /\ u.meta.name = r[i].name
                          /\ Targets(s)[i].virtualNode = UnitRef(s.id, u)
                          /\ u.virtualNode.virtualNodeName = r[i].name
                          /\ u.virtualNode.listener.healthCheck.path = "/health"
                          /\ u.virtualNode.listener.port = s.props.port
                          /\ u.fargateService.cloudMapOptions.name = r[i].name
                          /\ \E n \in DOMAIN namespace :
                                /\ namespace[n].name = r[i].name
                                /\ namespace[n].owner = UnitRef(s.id, u)
                /\ (\E j \in DOMAIN r : r[j].weight > 0) => HasShare(s, i, 0)

C8_Witness ==
    \E k \in DOMAIN services :
        /\ Len(services[k].props.routes) = 2
        /\ services[k].props.routes[1].weight = 0
        /\ services[k].props.routes[2].weight = 4
        /\ Targets(services[k])[1].weight = 0
        /\ \E n \in DOMAIN namespace : namespace[n].name = services[k].props.routes[1].name

\* The response of request r answers what its downstream call settled with.
Answers(r) ==
    /\ Len(r.responses) = 1
    /\ r.responses[1].status \in 200..299
    /\ r.settled.kind = "fulfilled" =>
          r.responses[1].body = [serviceB |-> r.settled.value.data]
    /\ r.settled.kind = "rejected" =>
          /\ DOMAIN r.responses[1].body = {"error"}
          /\ r.responses[1].body.error = JSONStringify(r.settled.value)

\* Request n has completed with its one response.
Answered(n) ==
    IF n \in DOMAIN requests
    THEN requests[n].pc = "done" /\ Answers(requests[n])
    ELSE FALSE

\* C9: every GET /serviceb completes with exactly one JSON response:
\* {serviceB: <downstream body>} when the downstream call succeeds and
\* {error: <stringified failure>} with a 2xx status when it fails; no request
\* is left without a response.
C9_EveryRequestAnswered ==
    /\ [](\A n \in DOMAIN requests :
            /\ Len(requests[n].responses) <= 1
            /\ requests[n].pc = "done" => Answers(requests[n]))
    /\ \A n \in 1..MaxRequests :
          (n \in DOMAIN requests) ~> Answered(n)

C9_Witness ==
    \E n \in DOMAIN requests :
        /\ requests[n].settled.kind = "rejected"
        /\ Len(requests[n].responses) = 1
        /\ DOMAIN requests[n].responses[1].body = {"error"}

\* C10: a grant from unit x to unit y, or a backend declaration on x for the
\* published identity of y's group, exists only if addBackends(group of x,
\* group of y) was called: nothing in the reverse direction, nothing that
\* involves a third group.
C10_ReachabilityOnlyByAddBackends ==
    /\ \A n \in DOMAIN grants :
          \E c \in DOMAIN calls :
              /\ calls[c].from = grants[n].from.service
              /\ calls[c].to = grants[n].to.service
    /\ \A k \in DOMAIN services : \A i \in DOMAIN Units(services[k]) :
          \A n \in DOMAIN Units(services[k])[i].virtualNode.backends :
              \E c \in DOMAIN calls :
                  /\ calls[c].from = services[k].id
                  /\ calls[c].to =
                        Units(services[k])[i].virtualNode.backends[n].virtualService.scope

C10_Witness ==
    /\ Len(services) = 3
    /\ Len(calls) = 1
    /\ calls[1].from # calls[1].to
    /\ Len(grants) = 2
    /\ BackendCount(services) = 1

\* What the creation of a group fixes: its units (construct id, name and port,
\* Cloud Map registration, mesh node name and listener), its router with the
\* route's weighted targets, and its published identity.
FixedPart(s) ==
    [units |-> [i \in DOMAIN Units(s) |->
                   [id |-> Units(s)[i].id,
                    meta |-> Units(s)[i].meta,
                    fargateService |-> Units(s)[i].fargateService,
                    virtualNodeName |-> Units(s)[i].virtualNode.virtualNodeName,
                    listener |-> Units(s)[i].virtualNode.listener]],
     virtualRouter |-> s.virtualRouter,
     virtualService |-> s.virtualService]

\* The group is, or has been, the caller or the callee of an addBackends call.
IsCaller(s) == \E c \in DOMAIN calls : calls[c].from = s.id
IsCallee(s) == \E c \in DOMAIN calls : calls[c].to = s.id
IsExposed(s) == \E i \in DOMAIN Units(s) : HasFrontDoor(s.id, Units(s)[i])

\* C11: a group's weighted-target set is fixed at creation.  In every graph,
\* whatever addBackends calls (the group as caller or as callee) and
\* createExternalLoadBalancer calls on its units came after the group's
\* creation, the group's units, its route's weighted targets and weights, its
\* published identity and its DNS record are what the constructor produced
\* from the group's props; and no step that leaves a graph removes a group or
\* changes any of these.
C11_GroupFixedAtCreation ==
    /\ [](/\ Len(virtualServices) = Len(services)
          /\ Len(hostedZone.records) = Len(services)
          /\ \A k \in DOMAIN services :
                LET s == services[k]
                    created == AppMeshService(s.id, s.props, hostedZone.zoneName)
                IN  /\ FixedPart(s) = FixedPart(created)
                    /\ Weights(s) = [i \in DOMAIN s.props.routes |->
                                        s.props.routes[i].weight]
                    /\ virtualServices[k] = created.virtualService
                    /\ hostedZone.records[k]
                          = ARecord(s.id, s.props, hostedZone.zoneName))
    /\ [][outcome'.status = "ok" =>
            \A k \in DOMAIN services :
                /\ k \in DOMAIN services'
                /\ FixedPart(services'[k]) = FixedPart(services[k])
                /\ virtualServices'[k] = virtualServices[k]
                /\ hostedZone'.records[k] = hostedZone.records[k]
       ]_vars

\* serviceB (4 : 1) has been the callee of an addBackends call, and the caller
\* of that call has a front door on one of its units.
C11_Witness ==
    \E a, b \in DOMAIN services :
        /\ a # b
        /\ calls = <<[from |-> services[a].id, to |-> services[b].id]>>
        /\ IsCaller(services[a]) /\ IsCallee(services[b])
        /\ IsExposed(services[a])
        /\ BackendCount(services) >= 1
        /\ services[b].props = ServiceBProps
        /\ Weights(services[b]) = <<4, 1>>

===========================================================================
